---- MODULE Spec2Model ----
(***************************************************************************)
(* Smart Farming Assistant backend (src/main.py, src/schemas.py).          *)
(*                                                                         *)
(* The module models                                                       *)
(*   - the six advisory functions of the analysis engine as operators,     *)
(*     computed the way the Python code computes them (truthiness tests,   *)
(*     IEEE-754 double arithmetic of the yield modifier, str.lower, the    *)
(*     substring test of climate_advice);                                  *)
(*   - the request handlers POST /profiles, /soiltests, /observations and  *)
(*     POST /analyze over a document store with four collections.          *)
(*                                                                         *)
(* Conventions.                                                            *)
(*   field values     the value of every field of a document, of keyword   *)
(*                    arguments and of a model is <<>> for None (a stored  *)
(*                    null) and <<v>> for a value v of the field's         *)
(*                    declared type; this holds for the required str       *)
(*                    field name as well, so that a null name can be       *)
(*                    written and is refused.  A value of another type     *)
(*                    than the field's (a number for a str field, a        *)
(*                    numeric string for a float field) has no             *)
(*                    representation here.                                 *)
(*   str              crop names and surrounding_env, on which the code    *)
(*                    computes (lower(), "in"), are sequences of           *)
(*                    one-character strings; strings the code only         *)
(*                    compares for equality are TLA+ strings.              *)
(*   float inputs     integers in the field's unit; soil pH is in tenths   *)
(*                    of a pH unit (55 is pH 5.5).                         *)
(*   float results    the yield modifier is an IEEE-754 double, kept as    *)
(*                    [m, e] with a 53-bit mantissa m (a little-endian     *)
(*                    sequence of 12-bit limbs) and value m * 2^e.         *)
(***************************************************************************)
EXTENDS Integers, Sequences, FiniteSets, TLC

(***************************************************************************)
(* Optional values and Python truthiness                                   *)
(***************************************************************************)
None == <<>>

Some(v) == <<v>>

Val(o) == o[1]

\* bool(x) of an Optional[float]: None and 0.0 are false.
TruthyNum(o) == o # None /\ Val(o) # 0

\* bool(x) of an Optional[str] or Optional[List]: None and the empty one are false.
TruthySeq(o) == o # None /\ Val(o) # <<>>

(***************************************************************************)
(* Natural numbers of arbitrary size as little-endian sequences of limbs   *)
(* (the 53-bit mantissas of doubles do not fit a machine integer here).    *)
(***************************************************************************)
LimbBits == 12

Limb == 2 ^ LimbBits

RECURSIVE NatLimbs(_)
NatLimbs(n) == IF n = 0 THEN <<>> ELSE <<n % Limb>> \o NatLimbs(n \div Limb)

RECURSIVE LimbsNat(_)
LimbsNat(b) == IF b = <<>> THEN 0 ELSE Head(b) + Limb * LimbsNat(Tail(b))

\* without its leading (most significant) zero limbs
TrimL(b) ==
    IF \A i \in 1..Len(b) : b[i] = 0 THEN <<>>
    ELSE SubSeq(b, 1, CHOOSE i \in 1..Len(b) :
                         b[i] # 0 /\ \A j \in (i + 1)..Len(b) : b[j] = 0)

ZerosL(k) == [i \in 1..k |-> 0]

RECURSIVE BitLenNat(_)
BitLenNat(n) == IF n = 0 THEN 0 ELSE 1 + BitLenNat(n \div 2)

\* number of significant bits of a trimmed limb sequence
BitLen(b) ==
    IF b = <<>> THEN 0 ELSE LimbBits * (Len(b) - 1) + BitLenNat(b[Len(b)])

RECURSIVE AddL(_, _, _)
AddL(a, b, c) ==
    IF a = <<>> /\ b = <<>> THEN (IF c = 0 THEN <<>> ELSE <<c>>)
    ELSE LET x == IF a = <<>> THEN 0 ELSE Head(a)
             y == IF b = <<>> THEN 0 ELSE Head(b)
             s == x + y + c
         IN  <<s % Limb>> \o AddL(IF a = <<>> THEN <<>> ELSE Tail(a),
                                  IF b = <<>> THEN <<>> ELSE Tail(b),
                                  s \div Limb)

\* a - b - c for a >= b + c
RECURSIVE SubL(_, _, _)
SubL(a, b, c) ==
    IF a = <<>> THEN <<>>
    ELSE LET y == IF b = <<>> THEN 0 ELSE Head(b)
             d == Head(a) - y - c
         IN  <<d % Limb>> \o SubL(Tail(a),
                                  IF b = <<>> THEN <<>> ELSE Tail(b),
                                  IF d < 0 THEN 1 ELSE 0)

\* a * k + c for a small natural k
RECURSIVE MulSmall(_, _, _)
MulSmall(a, k, c) ==
    IF a = <<>> THEN NatLimbs(c)
    ELSE LET s == Head(a) * k + c
         IN  <<s % Limb>> \o MulSmall(Tail(a), k, s \div Limb)

\* quotient and remainder of a by a small natural d
RECURSIVE DivSmall(_, _)
DivSmall(a, d) ==
    IF a = <<>> THEN [q |-> <<>>, r |-> 0]
    ELSE LET hi  == DivSmall(Tail(a), d)
             cur == Limb * hi.r + Head(a)
         IN  [q |-> <<cur \div d>> \o hi.q, r |-> cur % d]

\* a * 2^s
ShiftLeft(a, s) ==
    ZerosL(s \div LimbBits) \o MulSmall(a, 2 ^ (s % LimbBits), 0)

\* the limbs of a above the lowest k
DropLimbs(a, k) == IF k >= Len(a) THEN <<>> ELSE SubSeq(a, k + 1, Len(a))

\* is one of the lowest k limbs of a nonzero?
LostLimbs(a, k) == \E i \in 1..k : i <= Len(a) /\ a[i] # 0

ShiftOut(qr, lost) == [q |-> TrimL(qr.q), sticky |-> lost \/ qr.r # 0]

\* floor(a / 2^s), and whether anything nonzero was shifted out
ShiftRight(a, s) ==
    ShiftOut(DivSmall(DropLimbs(a, s \div LimbBits), 2 ^ (s % LimbBits)),
             LostLimbs(a, s \div LimbBits))

(***************************************************************************)
(* IEEE-754 binary64 (Python float), positive values, round to nearest,    *)
(* ties to even.                                                           *)
(***************************************************************************)
MantBits == 53

\* round to nearest, ties to even: kept is the value without its last bit,
\* guard that bit, rest whether anything nonzero lies below it
FUp(kept, guard, rest) ==
    IF guard = 1 /\ (rest \/ kept[1] % 2 = 1) THEN AddL(kept, <<1>>, 0) ELSE kept

\* a rounding that carried into a 54th bit
FCarry(r, e) ==
    IF BitLen(r) > MantBits THEN [m |-> ShiftRight(r, 1).q, e |-> e + 1]
    ELSE [m |-> r, e |-> e]

\* s1 is a 54-bit value with its sticky flag; e the exponent of the result
FCut(s1, e, sticky) ==
    FCarry(FUp(ShiftRight(s1.q, 1).q, s1.q[1] % 2, sticky \/ s1.sticky), e)

\* The double nearest to (t + f) * 2^e for a trimmed t, where 0 <= f < 1 and
\* sticky says f > 0.
FNorm(t, e, sticky) ==
    IF t = <<>> THEN [m |-> <<>>, e |-> 0]
    ELSE IF BitLen(t) <= MantBits
    THEN [m |-> TrimL(ShiftLeft(t, MantBits - BitLen(t))),
          e |-> e - (MantBits - BitLen(t))]
    ELSE FCut(ShiftRight(t, BitLen(t) - MantBits - 1),
              e + (BitLen(t) - MantBits), sticky)

FRound(b, e, sticky) == FNorm(TrimL(b), e, sticky)

\* float(n) of a natural n
FloatOfInt(n) == FRound(NatLimbs(n), 0, FALSE)

FQuot(qr, e) == FRound(qr.q, e, qr.r # 0)

\* The double a decimal literal num/den denotes (1.0 is 1/1, 0.15 is 15/100).
FloatLit(num, den) ==
    FQuot(DivSmall(ZerosL(6) \o NatLimbs(num), den), 0 - 6 * LimbBits)

\* the mantissa of x scaled to the exponent e <= x.e
FAlign(x, e) == ShiftLeft(x.m, x.e - e)

FMin(a, b) == IF a < b THEN a ELSE b

\* x + y
FAdd(x, y) ==
    FRound(AddL(FAlign(x, FMin(x.e, y.e)), FAlign(y, FMin(x.e, y.e)), 0),
           FMin(x.e, y.e), FALSE)

\* x - y for x >= y
FSub(x, y) ==
    FRound(SubL(FAlign(x, FMin(x.e, y.e)), FAlign(y, FMin(x.e, y.e)), 0),
           FMin(x.e, y.e), FALSE)

\* n * x for an int n: Python converts n to float (exact below 2^53) and
\* rounds the exact product once.
FMulInt(n, x) == FRound(MulSmall(x.m, n, 0), x.e, FALSE)

\* int(x): truncation toward zero
FTrunc(x) ==
    IF x.m = <<>> THEN 0
    ELSE IF x.e >= 0 THEN LimbsNat(ShiftLeft(x.m, x.e))
    ELSE LimbsNat(ShiftRight(x.m, 0 - x.e).q)

\* the most significant limb in which a and b (of equal length) differ, or 0
TopDiff(a, b) ==
    IF \A i \in 1..Len(a) : a[i] = b[i] THEN 0
    ELSE CHOOSE i \in 1..Len(a) :
            a[i] # b[i] /\ \A j \in (i + 1)..Len(a) : a[j] = b[j]

LimbLeq(a, b, top) == top = 0 \/ a[top] < b[top]

\* x <= y for two doubles (normalised mantissas: compare exponents first)
FLeq(x, y) ==
    IF x.m = <<>> THEN TRUE
    ELSE IF y.m = <<>> THEN FALSE
    ELSE IF x.e # y.e THEN x.e < y.e
    ELSE LimbLeq(x.m, y.m, TopDiff(x.m, y.m))

(***************************************************************************)
(* str: crop names and surrounding_env as sequences of characters          *)
(***************************************************************************)
UpperCase ==
    <<"A", "B", "C", "D", "E", "F", "G", "H", "I", "J", "K", "L", "M",
      "N", "O", "P", "Q", "R", "S", "T", "U", "V", "W", "X", "Y", "Z">>

LowerCase ==
    <<"a", "b", "c", "d", "e", "f", "g", "h", "i", "j", "k", "l", "m",
      "n", "o", "p", "q", "r", "s", "t", "u", "v", "w", "x", "y", "z">>

LowerChar(c) ==
    IF \E i \in 1..Len(UpperCase) : UpperCase[i] = c
    THEN LowerCase[CHOOSE i \in 1..Len(UpperCase) : UpperCase[i] = c]
    ELSE c

\* str.lower()
Lower(s) == IF s = <<>> THEN <<>> ELSE [i \in 1..Len(s) |-> LowerChar(s[i])]

\* sub in s
Contains(s, sub) ==
    \E i \in 0..(Len(s) - Len(sub)) : SubSeq(s, i + 1, i + Len(sub)) = sub

S_wheat == <<"w", "h", "e", "a", "t">>

S_rice == <<"r", "i", "c", "e">>

S_maize == <<"m", "a", "i", "z", "e">>

S_soybean == <<"s", "o", "y", "b", "e", "a", "n">>

S_cotton == <<"c", "o", "t", "t", "o", "n">>

S_potato == <<"p", "o", "t", "a", "t", "o">>

S_tomato == <<"t", "o", "m", "a", "t", "o">>

S_onion == <<"o", "n", "i", "o", "n">>

S_sugarcane == <<"s", "u", "g", "a", "r", "c", "a", "n", "e">>

S_forest == <<"f", "o", "r", "e", "s", "t">>

(***************************************************************************)
(* schemas.py: the pydantic models with their defaults                     *)
(***************************************************************************)
FarmerprofileFields ==
    {"name", "phone", "location_text", "gps_lat", "gps_lng", "farm_size_ha",
     "soil_type", "elevation_m", "irrigation_method", "water_source",
     "farming_practices", "crop_history", "surrounding_env"}

SoiltestFields ==
    {"farmer_id", "ph", "nitrogen_ppm", "phosphorus_ppm", "potassium_ppm",
     "organic_matter_pct", "ec_dS_m"}

FarmobservationFields ==
    {"farmer_id", "target_crop", "temp_c", "humidity_pct", "rainfall_mm",
     "wind_kph", "pest_signs", "disease_signs", "notes"}

\* the defaults of Farmerprofile's fields; name (str = Field(...)) has none:
\* it is required, and it is not Optional
FarmerprofileDefaults ==
    [phone |-> None, location_text |-> None, gps_lat |-> None,
     gps_lng |-> None, farm_size_ha |-> None, soil_type |-> None,
     elevation_m |-> None, irrigation_method |-> None, water_source |-> None,
     farming_practices |-> Some(<<>>), crop_history |-> Some(<<>>),
     surrounding_env |-> None]

\* Farmerprofile(name=n): every other field at its default
Farmerprofile(n) ==
    [k \in FarmerprofileFields |->
        IF k = "name" THEN Some(n) ELSE FarmerprofileDefaults[k]]

\* Soiltest()
Soiltest ==
    [farmer_id |-> None, ph |-> None, nitrogen_ppm |-> None,
     phosphorus_ppm |-> None, potassium_ppm |-> None,
     organic_matter_pct |-> None, ec_dS_m |-> None]

\* Farmobservation()
Farmobservation ==
    [farmer_id |-> None, target_crop |-> None, temp_c |-> None,
     humidity_pct |-> None, rainfall_mm |-> None, wind_kph |-> None,
     pest_signs |-> Some(<<>>), disease_signs |-> Some(<<>>), notes |-> None]

\* declared ranges (Field(ge=..., le=...)); pH is in tenths
MaxHumidity == 100

MaxPh == 140

MaxOrganicMatter == 100

\* Field(ge=..., le=...) of each model's numeric fields, None where the
\* field has no such limit
FarmerprofileRanges ==
    [farm_size_ha |-> [ge |-> Some(0), le |-> None],
     elevation_m |-> [ge |-> Some(-430), le |-> Some(9000)]]

SoiltestRanges ==
    [ph |-> [ge |-> Some(0), le |-> Some(MaxPh)],
     nitrogen_ppm |-> [ge |-> Some(0), le |-> None],
     phosphorus_ppm |-> [ge |-> Some(0), le |-> None],
     potassium_ppm |-> [ge |-> Some(0), le |-> None],
     organic_matter_pct |-> [ge |-> Some(0), le |-> Some(MaxOrganicMatter)],
     ec_dS_m |-> [ge |-> Some(0), le |-> None]]

FarmobservationRanges ==
    [humidity_pct |-> [ge |-> Some(0), le |-> Some(MaxHumidity)],
     rainfall_mm |-> [ge |-> Some(0), le |-> None],
     wind_kph |-> [ge |-> Some(0), le |-> None]]

\* what constructing a model raises when a value does not validate
ValidationError == [raised |-> "ValidationError"]

Raised(x) == DOMAIN x = {"raised"}

\* an Optional number against its Field(ge=..., le=...)
InRange(value, range) ==
    \/ value = None
    \/ /\ range.ge = None \/ Val(value) >= Val(range.ge)
       /\ range.le = None \/ Val(value) <= Val(range.le)

\* Model(**kwargs): a required field must be given and, being of a type
\* that is not Optional, must not be None; a given number must be within its
\* range; a field that is not given takes its default
Construct(kwargs, required, defaults, ranges) ==
    IF \/ ~(required \subseteq DOMAIN kwargs)
       \/ \E k \in required : kwargs[k] = None
       \/ \E k \in (DOMAIN ranges) \cap (DOMAIN kwargs) :
             ~InRange(kwargs[k], ranges[k])
    THEN ValidationError
    ELSE [k \in required \cup DOMAIN defaults |->
             IF k \in DOMAIN kwargs THEN kwargs[k] ELSE defaults[k]]

(***************************************************************************)
(* main.py: the advisory functions                                         *)
(***************************************************************************)
EmptyDict == [k \in {} |-> ""]

\* d[k] = v of a Python dict
Put(d, k, v) == [x \in (DOMAIN d) \cup {k} |-> IF x = k THEN v ELSE d[x]]

\* C2's boundary moved: humidity 80 itself no longer counts as high
fungal_general_above_80(obs) ==
    IF TruthyNum(obs.humidity_pct) /\ Val(obs.humidity_pct) > 80
    THEN "high"
    ELSE IF TruthyNum(obs.humidity_pct) /\ Val(obs.humidity_pct) >= 60
    THEN "medium"
    ELSE "low"

\* lines 120-125: the severity stored under "fungal_general"
fungal_general(obs) ==
    IF TruthyNum(obs.humidity_pct) /\ Val(obs.humidity_pct) >= 80
    THEN "high"
    ELSE IF TruthyNum(obs.humidity_pct) /\ Val(obs.humidity_pct) >= 60
    THEN "medium"
    ELSE "low"

simple_disease_pest_risk(obs) ==
    LET d1 == Put(EmptyDict, "fungal_general", fungal_general(obs))
        p1 == IF TruthyNum(obs.temp_c) /\ Val(obs.temp_c) >= 28
              THEN Put(EmptyDict, "borers_aphids_general", "medium")
              ELSE EmptyDict
        p2 == IF TruthyNum(obs.temp_c) /\ Val(obs.temp_c) >= 32
              THEN Put(p1, "borers_aphids_general", "high")
              ELSE p1
        d2 == IF TruthyNum(obs.rainfall_mm) /\ Val(obs.rainfall_mm) > 50
              THEN Put(d1, "washout_root_rot", "medium")
              ELSE d1
        p3 == IF TruthySeq(obs.pest_signs) /\ Len(Val(obs.pest_signs)) > 0
              THEN Put(p2, "observed_signs", "high")
              ELSE p2
        d3 == IF TruthySeq(obs.disease_signs) /\ Len(Val(obs.disease_signs)) > 0
              THEN Put(d2, "observed_signs", "high")
              ELSE d2
    IN  [disease |-> d3, pest |-> p3]

NoteSandy == "Sandy soils drain fast; irrigate more frequently with smaller amounts."

NoteClay == "Clay soils retain water longer; reduce frequency but increase amount."

NoteRain == "Recent rainfall detected; skip next irrigation if field is moist."

NoteDrip == "Using drip? Split daily in small doses for uniform moisture."

\* C4's table with "loamy sand" left out of the sandy soils
soil_type_schedule_two_sandy(soil_type) ==
    IF soil_type # None /\ Val(soil_type) \in {"sandy", "sandy loam"}
    THEN [frequency_days |-> 2, amount_mm |-> 15, notes |-> <<NoteSandy>>]
    ELSE IF soil_type # None /\ Val(soil_type) \in {"loam", "loamy"}
    THEN [frequency_days |-> 3, amount_mm |-> 20, notes |-> <<>>]
    ELSE IF soil_type # None
            /\ Val(soil_type) \in {"clay", "clayey", "silty clay"}
    THEN [frequency_days |-> 4, amount_mm |-> 25, notes |-> <<NoteClay>>]
    ELSE [frequency_days |-> 3, amount_mm |-> 20, notes |-> <<>>]

\* lines 143-155: the schedule after the soil-type lookup
soil_type_schedule(soil_type) ==
    LET s0 == [frequency_days |-> 3, amount_mm |-> 20, notes |-> <<>>]
    IN  IF soil_type # None
           /\ Val(soil_type) \in {"sandy", "sandy loam", "loamy sand"}
        THEN [frequency_days |-> 2, amount_mm |-> 15,
              notes |-> Append(s0.notes, NoteSandy)]
        ELSE IF soil_type # None /\ Val(soil_type) \in {"loam", "loamy"}
        THEN [s0 EXCEPT !.frequency_days = 3, !.amount_mm = 20]
        ELSE IF soil_type # None
                /\ Val(soil_type) \in {"clay", "clayey", "silty clay"}
        THEN [frequency_days |-> 4, amount_mm |-> 25,
              notes |-> Append(s0.notes, NoteClay)]
        ELSE s0

\* profile, soil and obs are Optional: None or Some(model)
irrigation_schedule(profile, soil, obs) ==
    LET soil_type == IF profile # None THEN Val(profile).soil_type ELSE None
        s1 == soil_type_schedule(soil_type)
        s2 == IF obs # None /\ TruthyNum(Val(obs).rainfall_mm)
                  /\ Val(Val(obs).rainfall_mm) >= 15
              THEN [s1 EXCEPT !.notes = Append(@, NoteRain)]
              ELSE s1
        s3 == IF profile # None /\ Val(profile).irrigation_method = Some("drip")
              THEN [s2 EXCEPT !.notes = Append(@, NoteDrip)]
              ELSE s2
    IN  s3

TipForest == "Watch for wildlife and pest pressure near forest edges; use traps and barriers."

TipWind == "High winds expected; stake young plants and secure mulches or covers."

TipHeat == "Heat stress risk; irrigate early morning, add shade nets for seedlings."

TipCold == "Cold stress risk; consider row covers or mulches to retain soil heat."

TipMulch == "Adopt mulching to conserve moisture and suppress weeds."

TipIPM == "Use integrated pest management (IPM): monitoring, thresholds, biological controls."

climate_advice(profile, obs) ==
    LET t1 == IF profile # None /\ TruthySeq(Val(profile).surrounding_env)
                  /\ Contains(Val(Val(profile).surrounding_env), S_forest)
              THEN <<TipForest>> ELSE <<>>
        t2 == IF obs # None /\ TruthyNum(Val(obs).wind_kph)
                  /\ Val(Val(obs).wind_kph) > 30
              THEN Append(t1, TipWind) ELSE t1
        t3 == IF obs # None /\ TruthyNum(Val(obs).temp_c)
                  /\ Val(Val(obs).temp_c) > 35
              THEN Append(t2, TipHeat) ELSE t2
        t4 == IF obs # None /\ TruthyNum(Val(obs).temp_c)
                  /\ Val(Val(obs).temp_c) < 10
              THEN Append(t3, TipCold) ELSE t3
    IN  Append(Append(t4, TipMulch), TipIPM)

base_yields ==
    [c \in {S_wheat, S_rice, S_maize, S_soybean, S_cotton, S_potato, S_tomato} |->
        IF c = S_wheat THEN 3500
        ELSE IF c = S_rice THEN 4500
        ELSE IF c = S_maize THEN 5000
        ELSE IF c = S_soybean THEN 2500
        ELSE IF c = S_cotton THEN 2200
        ELSE IF c = S_potato THEN 20000
        ELSE 30000]

\* dict.get(k, default)
DictGet(d, k, default) == IF k \in DOMAIN d THEN d[k] ELSE default

\* C5's resolution without the .lower() of line 192
forecast_crop_as_written(profile, obs) ==
    IF obs # None /\ TruthySeq(Val(obs).target_crop)
    THEN Val(Val(obs).target_crop)
    ELSE IF profile # None /\ TruthySeq(Val(profile).crop_history)
    THEN LET h == Val(Val(profile).crop_history) IN h[Len(h)]
    ELSE S_wheat

\* line 192: the crop the forecast is for
forecast_crop(profile, obs) ==
    Lower(IF obs # None /\ TruthySeq(Val(obs).target_crop)
          THEN Val(Val(obs).target_crop)
          ELSE IF profile # None /\ TruthySeq(Val(profile).crop_history)
          THEN LET h == Val(Val(profile).crop_history) IN h[Len(h)]
          ELSE S_wheat)

\* the conditions of lines 196, 198, 200 and 202: which adjustments apply
yield_rules(soil, obs) ==
    <<soil # None /\ TruthyNum(Val(soil).ph)
          /\ (Val(Val(soil).ph) < 55 \/ Val(Val(soil).ph) > 85),
      soil # None /\ TruthyNum(Val(soil).organic_matter_pct)
          /\ Val(Val(soil).organic_matter_pct) >= 2,
      obs # None /\ TruthyNum(Val(obs).rainfall_mm)
          /\ Val(Val(obs).rainfall_mm) < 10,
      obs # None /\ TruthyNum(Val(obs).humidity_pct)
          /\ Val(Val(obs).humidity_pct) > 85>>

\* modifier -= y, when the rule applies
SubIf(applies, x, y) == IF applies THEN FSub(x, y) ELSE x

\* modifier += y, when the rule applies
AddIf(applies, x, y) == IF applies THEN FAdd(x, y) ELSE x

\* lines 195-203: the modifier, a double, after the adjustments that apply
\* C10's range left: the rainfall penalty doubled to 0.2
modifier_after_rain_penalty_doubled(rules) ==
    SubIf(rules[4],
          SubIf(rules[3],
                AddIf(rules[2],
                      SubIf(rules[1], FloatLit(1, 1), FloatLit(15, 100)),
                      FloatLit(5, 100)),
                FloatLit(2, 10)),
          FloatLit(5, 100))

\* lines 195-203: the modifier after the four rules, in the code's order
modifier_after(rules) ==
    SubIf(rules[4],
          SubIf(rules[3],
                AddIf(rules[2],
                      SubIf(rules[1], FloatLit(1, 1), FloatLit(15, 100)),
                      FloatLit(5, 100)),
                FloatLit(1, 10)),
          FloatLit(5, 100))

RuleSets == BOOLEAN \X BOOLEAN \X BOOLEAN \X BOOLEAN

\* the bases line 193 can produce
BaseYieldValues == {base_yields[c] : c \in DOMAIN base_yields} \cup {3000}

\* modifier_after and int(base * modifier), evaluated once for every case
ModifierTable == {<<r, modifier_after(r)>> : r \in RuleSets}

YieldTable ==
    {<<b, r, FTrunc(FMulInt(b, modifier_after(r)))>> :
        b \in BaseYieldValues, r \in RuleSets}

yield_modifier(soil, obs) ==
    (CHOOSE e \in ModifierTable : e[1] = yield_rules(soil, obs))[2]

simple_yield_forecast(profile, soil, obs) ==
    LET crop == forecast_crop(profile, obs)
        base == DictGet(base_yields, crop, 3000)
    IN  [crop |-> crop,
         yield_kg_per_ha |->
             (CHOOSE e \in YieldTable :
                 e[1] = base /\ e[2] = yield_rules(soil, obs))[3]]

rotation_plan(profile) ==
    LET last == IF profile # None /\ TruthySeq(Val(profile).crop_history)
                THEN LET h == Val(Val(profile).crop_history)
                     IN  Some(Lower(h[Len(h)]))
                ELSE None
    IN  IF last # None /\ Val(last) \in {S_rice, S_wheat, S_maize}
        THEN <<"legume (soybean/chickpea)", "oilseed (mustard/sunflower)",
               "vegetable (tomato/onion)">>
        ELSE IF last # None /\ Val(last) \in {S_cotton, S_sugarcane}
        THEN <<"pulse (cowpea/green gram)", "cereal (maize)",
               "forage (sorghum/berseem)">>
        ELSE <<"cereal", "legume", "vegetable">>

\* avg_price is in tenths of INR (215 is 21.5)
market_trends(location_text, crop) ==
    <<[crop |-> IF TruthySeq(crop) THEN Val(crop) ELSE S_wheat,
       avg_price |-> 215, unit |-> "INR/kg", demand |-> "rising",
       location |-> location_text],
      [crop |-> S_tomato, avg_price |-> 142, unit |-> "INR/kg",
       demand |-> "stable", location |-> location_text],
      [crop |-> S_onion, avg_price |-> 187, unit |-> "INR/kg",
       demand |-> "high", location |-> location_text]>>

(***************************************************************************)
(* State                                                                   *)
(***************************************************************************)
VARIABLES
    db,     \* the document store: collection name -> sequence of documents
    reqs,   \* the POST /analyze requests, in order of arrival
    call    \* the direct call of an advisory function, with its result

vars == <<db, reqs, call>>

\* bounds of the model
MaxDocs == 1

MaxRequests == 1

MaxConcurrent == 2

Collections == {"farmerprofile", "soiltest", "farmobservation", "analysisresult"}

(***************************************************************************)
(* Identifiers.  An ObjectId is [c, n]: unique per document.  A str is     *)
(* [hex |-> oid] when it is the 24-digit hex form of an ObjectId, and      *)
(* [raw |-> text] otherwise.                                               *)
(***************************************************************************)
\* str(oid)
StrOfId(oid) == [hex |-> oid]

\* bson.objectid.ObjectId(s) raises InvalidId for any other string
IsValidObjectId(s) == "hex" \in DOMAIN s

\* bson.objectid.ObjectId(s), when it does not raise
ObjectId(s) == s.hex

\* bool(s) of an Optional[str]
TruthyStr(o) == o # None /\ Val(o) # [raw |-> ""]

(***************************************************************************)
(* The document store (database.py: create_document, get_documents)        *)
(***************************************************************************)
WithId(rec, id) ==
    [k \in (DOMAIN rec) \cup {"_id"} |-> IF k = "_id" THEN id ELSE rec[k]]

\* insert(collection_name, record) -> id: the store after the insert, and
\* the new document's id as a string
create_document(d, coll, rec) ==
    LET id == [c |-> coll, n |-> Len(d[coll]) + 1]
    IN  [db |-> [d EXCEPT ![coll] = Append(@, WithId(rec, id))],
         id |-> StrOfId(id)]

\* find(collection_name, filter, limit) -> the first `limit` records that
\* have every field of the filter dict at the filter's value
get_documents(d, coll, filter, limit) ==
    LET found == SelectSeq(d[coll],
                           LAMBDA doc : \A k \in DOMAIN filter :
                                            doc[k] = filter[k])
    IN  SubSeq(found, 1, IF Len(found) < limit THEN Len(found) ELSE limit)

(***************************************************************************)
(* POST /profiles, /soiltests, /observations                               *)
(***************************************************************************)
HexP1 == StrOfId([c |-> "farmerprofile", n |-> 1])

RawFarmer == [raw |-> "farmer-1"]

S_Maize == <<"M", "a", "i", "z", "e">>

S_Rice == <<"R", "i", "c", "e">>

S_near_forest == <<"n", "e", "a", "r", " ", "f", "o", "r", "e", "s", "t">>

ProfilePayloads ==
    {[Farmerprofile("Asha") EXCEPT !.soil_type = Some("clay"),
                                   !.irrigation_method = Some("drip"),
                                   !.location_text = Some("Pune"),
                                   !.crop_history = Some(<<S_Maize>>),
                                   !.surrounding_env = Some(S_near_forest)]}

SoilPayloads ==
    {[Soiltest EXCEPT !.farmer_id = Some(HexP1), !.ph = Some(90),
                      !.organic_matter_pct = Some(3)]}

ObservationPayloads ==
    {[Farmobservation EXCEPT !.farmer_id = Some(HexP1),
                             !.target_crop = Some(S_cotton),
                             !.humidity_pct = Some(90), !.temp_c = Some(36)]}

\* Every call of the store either succeeds or raises because the store is
\* unreachable: `reachable` is that outcome, drawn from `outcomes`.
StoreOutcomes == BOOLEAN

StoreReachable == {TRUE}

\* one POST that validates and inserts; when create_document raises, the
\* request fails and nothing is stored
Create(coll, payload, outcomes) ==
    /\ Len(db[coll]) < MaxDocs
    /\ \E reachable \in outcomes :
          db' = IF reachable THEN create_document(db, coll, payload).db ELSE db
    /\ UNCHANGED <<reqs, call>>

create_profile(outcomes) ==
    \E payload \in ProfilePayloads : Create("farmerprofile", payload, outcomes)

create_soiltest(outcomes) ==
    \E payload \in SoilPayloads : Create("soiltest", payload, outcomes)

create_observation(outcomes) ==
    \E payload \in ObservationPayloads :
        Create("farmobservation", payload, outcomes)

(***************************************************************************)
(* POST /analyze                                                           *)
(***************************************************************************)
\* Model(**{k: v for k, v in doc.items() if k in Model.model_fields}): the
\* stored document's keys that are fields of the model, validated, the other
\* fields at their defaults; ValidationError when it does not validate
ModelOfDoc(doc, model_fields, required, defaults, ranges) ==
    Construct([k \in (DOMAIN doc) \cap model_fields |-> doc[k]],
              required, defaults, ranges)

FarmerprofileOfDoc(doc) ==
    ModelOfDoc(doc, FarmerprofileFields, {"name"}, FarmerprofileDefaults,
               FarmerprofileRanges)

SoiltestOfDoc(doc) ==
    ModelOfDoc(doc, SoiltestFields, {}, Soiltest, SoiltestRanges)

FarmobservationOfDoc(doc) ==
    ModelOfDoc(doc, FarmobservationFields, {}, Farmobservation,
               FarmobservationRanges)

RequestFarmerIds == {None, Some(HexP1), Some(RawFarmer)}

RequestCrops == {None, Some(S_Rice)}

\* lines 241-246: the request arrives; without a farmer_id no lookup is made.
\* unreachable: some lookup raised because the store was unreachable.
AnalyzeStart(limit, farmer_ids, crops) ==
    /\ Len(reqs) < limit
    /\ \E fid \in farmer_ids, crop \in crops :
          reqs' = Append(reqs,
                         [farmer_id |-> fid, target_crop |-> crop,
                          pc |-> IF TruthyStr(fid) THEN "profile" ELSE "engine",
                          profile_doc |-> None, soil_doc |-> None,
                          obs_doc |-> None, unreachable |-> FALSE,
                          response |-> None])
    /\ UNCHANGED <<db, call>>

\* C1's lookup with the farmer left out of the filter: {} matches every record
farmer_filter_any(farmer_id) == [k \in {} |-> farmer_id]

\* lines 253, 258: the filter {"farmer_id": req.farmer_id}
farmer_filter(farmer_id) == [farmer_id |-> farmer_id]

\* docs[0] if docs else None
FirstOrNone(docs) == IF docs # <<>> THEN Some(docs[1]) ELSE None

\* lines 247-251: the profile lookup; ObjectId(...) raises on an unparsable
\* id, get_documents raises when the store is unreachable; both are caught
AnalyzeLookupProfile(r, outcomes) ==
    /\ reqs[r].pc = "profile"
    /\ \E reachable \in outcomes :
          LET fid == Val(reqs[r].farmer_id)
          IN  reqs' = [reqs EXCEPT
                 ![r].profile_doc =
                     IF IsValidObjectId(fid) /\ reachable
                     THEN FirstOrNone(get_documents(db, "farmerprofile",
                              [_id |-> ObjectId(fid)], 1))
                     ELSE None,
                 ![r].unreachable =
                     @ \/ (IsValidObjectId(fid) /\ ~reachable),
                 ![r].pc = "soil"]
    /\ UNCHANGED <<db, call>>

\* lines 252-256
AnalyzeLookupSoil(r, outcomes) ==
    /\ reqs[r].pc = "soil"
    /\ \E reachable \in outcomes :
          reqs' = [reqs EXCEPT
             ![r].soil_doc =
                 IF reachable
                 THEN FirstOrNone(get_documents(db, "soiltest",
                          farmer_filter(reqs[r].farmer_id), 1))
                 ELSE None,
             ![r].unreachable = @ \/ ~reachable,
             ![r].pc = "obs"]
    /\ UNCHANGED <<db, call>>

\* lines 257-261
AnalyzeLookupObs(r, outcomes) ==
    /\ reqs[r].pc = "obs"
    /\ \E reachable \in outcomes :
          reqs' = [reqs EXCEPT
             ![r].obs_doc =
                 IF reachable
                 THEN FirstOrNone(get_documents(db, "farmobservation",
                          farmer_filter(reqs[r].farmer_id), 1))
                 ELSE None,
             ![r].unreachable = @ \/ ~reachable,
             ![r].pc = "engine"]
    /\ UNCHANGED <<db, call>>

\* lines 264-266: a stored document that does not validate raises
\* ValidationError, which nothing in analyze catches
AnalyzeRaises(req) ==
    \/ req.profile_doc # None /\ Raised(FarmerprofileOfDoc(Val(req.profile_doc)))
    \/ req.soil_doc # None /\ Raised(SoiltestOfDoc(Val(req.soil_doc)))
    \/ req.obs_doc # None /\ Raised(FarmobservationOfDoc(Val(req.obs_doc)))

\* lines 264-268: the models the engine is run on
AnalyzeProfile(req) ==
    IF req.profile_doc # None
    THEN Some(FarmerprofileOfDoc(Val(req.profile_doc))) ELSE None

AnalyzeSoil(req) ==
    IF req.soil_doc # None
    THEN Some(SoiltestOfDoc(Val(req.soil_doc))) ELSE None

\* C9's override left out: the stored observation as it is
AnalyzeObs_as_stored(req) ==
    IF req.obs_doc # None
    THEN FarmobservationOfDoc(Val(req.obs_doc))
    ELSE Farmobservation

AnalyzeObs(req) ==
    LET obs == IF req.obs_doc # None
               THEN FarmobservationOfDoc(Val(req.obs_doc))
               ELSE Farmobservation
    IN  IF TruthySeq(req.target_crop)
        THEN [obs EXCEPT !.target_crop = req.target_crop]
        ELSE obs

\* lines 270-287: the engine, and the result assembled from its outputs
AnalyzeResult(req) ==
    LET profile == AnalyzeProfile(req)
        soil    == AnalyzeSoil(req)
        obs     == AnalyzeObs(req)
        risk    == simple_disease_pest_risk(obs)
    IN  [farmer_id |-> req.farmer_id,
         target_crop |-> obs.target_crop,
         disease_risk |-> risk.disease,
         pest_risk |-> risk.pest,
         irrigation_schedule |-> irrigation_schedule(profile, soil, Some(obs)),
         climate_advice |-> climate_advice(profile, Some(obs)),
         yield_forecast |-> simple_yield_forecast(profile, soil, Some(obs)),
         rotation_plan |-> rotation_plan(profile),
         market_trends |->
             market_trends(IF profile # None THEN Val(profile).location_text
                           ELSE None,
                           obs.target_crop)]

\* C7's insert turned into "one result per farmer": a result of the same
\* farmer, when there is one, is replaced
AnalyzePersist_per_farmer(d, result) ==
    LET old == {i \in 1..Len(d["analysisresult"]) :
                   d["analysisresult"][i].farmer_id = result.farmer_id}
    IN  IF old = {}
        THEN create_document(d, "analysisresult", result)
        ELSE LET i == CHOOSE k \in old : TRUE
                 id == d["analysisresult"][i]._id
             IN  [db |-> [d EXCEPT !["analysisresult"][i] = WithId(result, id)],
                  id |-> StrOfId(id)]

\* lines 289-290: the result is inserted and returned with its id
AnalyzePersist(d, result) == create_document(d, "analysisresult", result)

\* lines 263-290 in one step (no other store call in between); when a model
\* does not validate or create_document raises, nothing catches it and the
\* request fails
AnalyzeFinish(r, outcomes) ==
    /\ reqs[r].pc = "engine"
    /\ \E reachable \in outcomes :
          LET result == AnalyzeResult(reqs[r])
              ins    == AnalyzePersist(db, result)
          IN  IF AnalyzeRaises(reqs[r])
              THEN /\ db' = db
                   /\ reqs' = [reqs EXCEPT
                         ![r].pc = "failed",
                         ![r].response = Some([status |-> 500,
                                               raised |-> "ValidationError"])]
              ELSE IF reachable
              THEN /\ db' = ins.db
                   /\ reqs' = [reqs EXCEPT
                         ![r].pc = "done",
                         ![r].response = Some([status |-> 200, id |-> ins.id,
                                               result |-> result])]
              ELSE /\ db' = db
                   /\ reqs' = [reqs EXCEPT
                         ![r].pc = "failed",
                         ![r].response = Some([status |-> 500,
                                               raised |-> "create_document"])]
    /\ UNCHANGED call

\* one step of a request that has arrived
AnalyzeStep(outcomes) ==
    \E r \in 1..Len(reqs) :
        \/ AnalyzeLookupProfile(r, outcomes)
        \/ AnalyzeLookupSoil(r, outcomes)
        \/ AnalyzeLookupObs(r, outcomes)
        \/ AnalyzeFinish(r, outcomes)

analyze ==
    \/ AnalyzeStart(MaxRequests, RequestFarmerIds, RequestCrops)
    \/ AnalyzeStep(StoreOutcomes)

(***************************************************************************)
(* Direct calls of the advisory functions, over inputs within the ranges   *)
(* schemas.py declares                                                     *)
(***************************************************************************)
NoCall == [fn |-> "none"]

S_RICE == <<"R", "I", "C", "E">>

S_quinoa == <<"q", "u", "i", "n", "o", "a">>

S_Tomato == <<"T", "o", "m", "a", "t", "o">>

S_Forest == <<"F", "o", "r", "e", "s", "t">>

S_open_field == <<"o", "p", "e", "n", " ", "f", "i", "e", "l", "d">>

S_forestry == <<"f", "o", "r", "e", "s", "t", "r", "y">>

S_fores == <<"f", "o", "r", "e", "s">>

OptionalOf(values) == {None} \cup {Some(v) : v \in values}

RiskObservations ==
    {[Farmobservation EXCEPT !.humidity_pct = h, !.temp_c = t,
                             !.rainfall_mm = rain, !.pest_signs = ps,
                             !.disease_signs = ds] :
        h \in OptionalOf(0..MaxHumidity),
        t \in OptionalOf({0, 28, 32}),
        rain \in OptionalOf({0, 51}),
        ps \in {Some(<<>>), Some(<<"leaf holes">>)},
        ds \in {None, Some(<<"rust spots">>)}}

IrrigationProfiles ==
    OptionalOf({[Farmerprofile("Asha") EXCEPT !.soil_type = st,
                                              !.irrigation_method = im,
                                              !.water_source = ws] :
        st \in OptionalOf({"sandy", "sandy loam", "loamy sand", "loam", "loamy",
                           "clay", "clayey", "silty clay", "Clay", "silt", ""}),
        im \in OptionalOf({"drip", "flood"}),
        ws \in OptionalOf({"canal"})})

IrrigationSoils == OptionalOf({[Soiltest EXCEPT !.ph = Some(90)]})

IrrigationObservations ==
    OptionalOf({[Farmobservation EXCEPT !.rainfall_mm = rain, !.humidity_pct = h] :
        rain \in OptionalOf({0, 14, 15, 60}),
        h \in OptionalOf({90})})

ClimateProfiles ==
    OptionalOf({[Farmerprofile("Asha") EXCEPT !.surrounding_env = env] :
        env \in OptionalOf({<<>>, S_forest, S_near_forest, S_forestry, S_Forest,
                            S_fores, S_open_field})})

ClimateObservations ==
    OptionalOf({[Farmobservation EXCEPT !.wind_kph = w, !.temp_c = t] :
        w \in OptionalOf({0, 30, 31}),
        t \in OptionalOf({-5, 0, 9, 10, 35, 36})})

YieldProfiles ==
    OptionalOf({[Farmerprofile("Asha") EXCEPT !.crop_history = h] :
        h \in OptionalOf({<<>>, <<S_Maize>>, <<S_rice, S_Tomato>>,
                          <<S_potato, S_cotton>>})})

YieldSoils ==
    OptionalOf({[Soiltest EXCEPT !.ph = ph, !.organic_matter_pct = om] :
        ph \in OptionalOf({0, 54, 55, 85, 86, 90, MaxPh}),
        om \in OptionalOf({0, 1, 2, MaxOrganicMatter})})

YieldObservations ==
    OptionalOf({[Farmobservation EXCEPT !.target_crop = tc, !.rainfall_mm = rain,
                                        !.humidity_pct = h] :
        tc \in OptionalOf({<<>>, S_rice, S_Rice, S_RICE, S_quinoa, S_soybean}),
        rain \in OptionalOf({0, 9, 10}),
        h \in OptionalOf({0, 85, 86, 90})})

call_simple_disease_pest_risk ==
    /\ call = NoCall
    /\ \E obs \in RiskObservations :
          call' = [fn |-> "simple_disease_pest_risk", obs |-> obs,
                   out |-> simple_disease_pest_risk(obs)]
    /\ UNCHANGED <<db, reqs>>

call_irrigation_schedule ==
    /\ call = NoCall
    /\ \E profile \in IrrigationProfiles, soil \in IrrigationSoils,
          obs \in IrrigationObservations :
          call' = [fn |-> "irrigation_schedule", profile |-> profile,
                   soil |-> soil, obs |-> obs,
                   out |-> irrigation_schedule(profile, soil, obs)]
    /\ UNCHANGED <<db, reqs>>

call_climate_advice ==
    /\ call = NoCall
    /\ \E profile \in ClimateProfiles, obs \in ClimateObservations :
          call' = [fn |-> "climate_advice", profile |-> profile, obs |-> obs,
                   out |-> climate_advice(profile, obs)]
    /\ UNCHANGED <<db, reqs>>

\* modifier is the value of the local variable at line 205
call_simple_yield_forecast ==
    /\ call = NoCall
    /\ \E profile \in YieldProfiles, soil \in YieldSoils,
          obs \in YieldObservations :
          call' = [fn |-> "simple_yield_forecast", profile |-> profile,
                   soil |-> soil, obs |-> obs,
                   modifier |-> yield_modifier(soil, obs),
                   out |-> simple_yield_forecast(profile, soil, obs)]
    /\ UNCHANGED <<db, reqs>>

(***************************************************************************)
(* Specifications                                                          *)
(***************************************************************************)
Init ==
    /\ db = [c \in Collections |-> <<>>]
    /\ reqs = <<>>
    /\ call = NoCall

\* the HTTP service, every store call succeeding or raising
Next ==
    \/ create_profile(StoreOutcomes)
    \/ create_soiltest(StoreOutcomes)
    \/ create_observation(StoreOutcomes)
    \/ analyze

Spec == Init /\ [][Next]_vars

\* the HTTP service under MaxConcurrent simultaneous analyses of one farmer,
\* the store reachable
ConcurrentNext ==
    \/ create_profile(StoreReachable)
    \/ create_soiltest(StoreReachable)
    \/ create_observation(StoreReachable)
    \/ AnalyzeStart(MaxConcurrent, {Some(HexP1)}, {None})
    \/ AnalyzeStep(StoreReachable)

ConcurrentSpec == Init /\ [][ConcurrentNext]_vars

\* the advisory functions called directly
EngineNext ==
    \/ call_simple_disease_pest_risk
    \/ call_irrigation_schedule
    \/ call_climate_advice
    \/ call_simple_yield_forecast

EngineSpec == Init /\ [][EngineNext]_vars

(***************************************************************************)
(* Claims about the advisory functions, under EngineSpec                   *)
(***************************************************************************)

\* C2: for every observation whose humidity is absent or any value in
\* 0..100, simple_disease_pest_risk sets disease["fungal_general"] to "high"
\* when humidity >= 80, "medium" when 60 <= humidity < 80 and "low" otherwise
\* (absent humidity included), whatever temperature, rainfall and the sign
\* lists are.
C2_FungalGeneralByHumidity ==
    call.fn = "simple_disease_pest_risk" =>
        LET h == call.obs.humidity_pct
        IN  /\ "fungal_general" \in DOMAIN call.out.disease
            /\ call.out.disease["fungal_general"] =
                  IF h # None /\ Val(h) >= 80 THEN "high"
                  ELSE IF h # None /\ Val(h) >= 60 THEN "medium"
                  ELSE "low"

\* humidity exactly 80 with a hot, wet observation carrying pest signs
C2_Witness ==
    /\ call.fn = "simple_disease_pest_risk"
    /\ call.obs.humidity_pct = Some(80)
    /\ call.obs.temp_c = Some(32)
    /\ call.obs.rainfall_mm = Some(51)
    /\ call.obs.pest_signs # Some(<<>>)
    /\ call.out.disease["fungal_general"] = "high"
    /\ "washout_root_rot" \in DOMAIN call.out.disease

\* C3: simple_yield_forecast returns yield_kg_per_ha = floor(base x modifier),
\* the modifier being 1.0 adjusted additively by -0.15 when soil pH is present
\* and outside [5.5, 8.5], +0.05 when organic matter is present and >= 2.0,
\* -0.10 when rainfall is present and < 10 mm, -0.05 when humidity is present
\* and > 85 (so pH 9.0 with humidity 90 gives 0.80 and, for wheat, 2800).
\* The modifier is counted in hundredths, which is exact.
C3_YieldIsFloorOfBaseTimesModifier ==
    call.fn = "simple_yield_forecast" =>
        LET ph   == IF call.soil # None THEN Val(call.soil).ph ELSE None
            om   == IF call.soil # None
                    THEN Val(call.soil).organic_matter_pct ELSE None
            rain == IF call.obs # None THEN Val(call.obs).rainfall_mm ELSE None
            hum  == IF call.obs # None THEN Val(call.obs).humidity_pct ELSE None
            hundredths ==
                100
                - (IF ph # None /\ (Val(ph) < 55 \/ Val(ph) > 85) THEN 15 ELSE 0)
                + (IF om # None /\ Val(om) >= 2 THEN 5 ELSE 0)
                - (IF rain # None /\ Val(rain) < 10 THEN 10 ELSE 0)
                - (IF hum # None /\ Val(hum) > 85 THEN 5 ELSE 0)
            base == DictGet(base_yields, call.out.crop, 3000)
        IN  call.out.yield_kg_per_ha = (base * hundredths) \div 100

\* C4: irrigation_schedule is a function of (profile.soil_type,
\* profile.irrigation_method, observation.rainfall_mm) only: frequency/amount
\* are 2/15 for sandy, sandy loam, loamy sand; 3/20 for loam, loamy; 4/25 for
\* clay, clayey, silty clay; 3/20 for any other or absent soil type; the
\* rainfall (>= 15 mm) and drip notes change neither, and the notes are the
\* soil note, the rainfall note, the drip note, in that order.
C4_ScheduleOfSoilMethodRainfall ==
    call.fn = "irrigation_schedule" =>
        LET soil_type == IF call.profile # None
                         THEN Val(call.profile).soil_type ELSE None
            method    == IF call.profile # None
                         THEN Val(call.profile).irrigation_method ELSE None
            rainfall  == IF call.obs # None
                         THEN Val(call.obs).rainfall_mm ELSE None
            sandy == soil_type \in {Some("sandy"), Some("sandy loam"),
                                    Some("loamy sand")}
            clay  == soil_type \in {Some("clay"), Some("clayey"),
                                    Some("silty clay")}
        IN  call.out =
                [frequency_days |-> IF sandy THEN 2 ELSE IF clay THEN 4 ELSE 3,
                 amount_mm |-> IF sandy THEN 15 ELSE IF clay THEN 25 ELSE 20,
                 notes |->
                     (IF sandy THEN <<NoteSandy>>
                      ELSE IF clay THEN <<NoteClay>> ELSE <<>>)
                     \o (IF rainfall # None /\ Val(rainfall) >= 15
                         THEN <<NoteRain>> ELSE <<>>)
                     \o (IF method = Some("drip") THEN <<NoteDrip>> ELSE <<>>)]

\* loamy sand under drip after 15 mm of rain, with a soil test and an
\* observed humidity that the schedule ignores: all three notes, in order
C4_Witness ==
    /\ call.fn = "irrigation_schedule"
    /\ call.profile # None
    /\ Val(call.profile).soil_type = Some("loamy sand")
    /\ Val(call.profile).water_source = Some("canal")
    /\ call.soil # None
    /\ call.obs # None
    /\ Val(call.obs).rainfall_mm = Some(15)
    /\ Val(call.obs).humidity_pct = Some(90)
    /\ call.out = [frequency_days |-> 2, amount_mm |-> 15,
                   notes |-> <<NoteSandy, NoteRain, NoteDrip>>]

\* C5: simple_yield_forecast resolves the crop as the observation's
\* target_crop when present (a non-empty name), else the last entry of the
\* profile's crop history when the history is non-empty, else "wheat"; the
\* name is lowercased before the base-yield lookup and in the output, so with
\* no profile, no soil test and target_crop "rice" in any letter case the
\* result is {crop: "rice", yield_kg_per_ha: 4500}; a crop not in the table
\* uses base 3000.  The base is read off where no modifier rule applies.
C5_CropResolution ==
    call.fn = "simple_yield_forecast" =>
        LET tc   == IF call.obs # None THEN Val(call.obs).target_crop ELSE None
            hist == IF call.profile # None
                    THEN Val(call.profile).crop_history ELSE None
            name == IF tc # None /\ Val(tc) # <<>> THEN Val(tc)
                    ELSE IF hist # None /\ Val(hist) # <<>>
                    THEN Val(hist)[Len(Val(hist))]
                    ELSE S_wheat
            crop == IF name \in {S_Rice, S_RICE} THEN S_rice
                    ELSE IF name = S_Maize THEN S_maize
                    ELSE IF name = S_Tomato THEN S_tomato
                    ELSE name
            base == CASE crop = S_wheat -> 3500
                      [] crop = S_rice -> 4500
                      [] crop = S_maize -> 5000
                      [] crop = S_soybean -> 2500
                      [] crop = S_cotton -> 2200
                      [] crop = S_potato -> 20000
                      [] crop = S_tomato -> 30000
                      [] OTHER -> 3000
            plain == /\ call.soil = None
                     /\ call.obs # None => /\ Val(call.obs).rainfall_mm = None
                                           /\ Val(call.obs).humidity_pct = None
        IN  /\ call.out.crop = crop
            /\ plain => call.out.yield_kg_per_ha = base
            /\ (call.profile = None /\ plain
                    /\ tc \in {Some(S_rice), Some(S_Rice), Some(S_RICE)})
               => call.out = [crop |-> S_rice, yield_kg_per_ha |-> 4500]

\* "RICE" with no profile and no soil test, against a history that is not used
C5_Witness ==
    /\ call.fn = "simple_yield_forecast"
    /\ call.profile = None
    /\ call.soil = None
    /\ call.obs # None
    /\ Val(call.obs).target_crop = Some(S_RICE)
    /\ Val(call.obs).rainfall_mm = None
    /\ Val(call.obs).humidity_pct = None
    /\ call.out = [crop |-> S_rice, yield_kg_per_ha |-> 4500]

\* C8: climate_advice returns exactly, in this order: the forest tip iff
\* surrounding_env contains "forest"; the staking tip iff wind is present and
\* > 30 kph; the heat-stress tip iff temperature is present and > 35 C; the
\* cold-stress tip iff temperature is present and < 10 C (0 and negative
\* temperatures included); then always the mulching tip and the IPM tip.
C8_TipsInOrder ==
    call.fn = "climate_advice" =>
        LET env  == IF call.profile # None
                    THEN Val(call.profile).surrounding_env ELSE None
            wind == IF call.obs # None THEN Val(call.obs).wind_kph ELSE None
            temp == IF call.obs # None THEN Val(call.obs).temp_c ELSE None
        IN  call.out =
                (IF env # None /\ Contains(Val(env), S_forest)
                 THEN <<TipForest>> ELSE <<>>)
                \o (IF wind # None /\ Val(wind) > 30 THEN <<TipWind>> ELSE <<>>)
                \o (IF temp # None /\ Val(temp) > 35 THEN <<TipHeat>> ELSE <<>>)
                \o (IF temp # None /\ Val(temp) < 10 THEN <<TipCold>> ELSE <<>>)
                \o <<TipMulch, TipIPM>>

\* C10: for every profile, soil test and observation within the declared
\* ranges the yield modifier lies in [0.70, 1.05] (the bounds being the
\* doubles 0.70 and 1.05), and yield_kg_per_ha is a strictly positive integer
\* not exceeding 31500.
C10_ModifierAndYieldRange ==
    call.fn = "simple_yield_forecast" =>
        /\ FLeq(FloatLit(70, 100), call.modifier)
        /\ FLeq(call.modifier, FloatLit(105, 100))
        /\ call.out.yield_kg_per_ha > 0
        /\ call.out.yield_kg_per_ha <= 31500

\* the three penalties together: pH 9.0, 9 mm of rain, humidity 90
C10_Witness ==
    /\ call.fn = "simple_yield_forecast"
    /\ call.soil # None
    /\ Val(call.soil).ph = Some(90)
    /\ Val(call.soil).organic_matter_pct = None
    /\ call.obs # None
    /\ Val(call.obs).rainfall_mm = Some(9)
    /\ Val(call.obs).humidity_pct = Some(90)
    /\ call.modifier = FloatLit(70, 100)
    /\ call.out.yield_kg_per_ha > 0

(***************************************************************************)
(* Claims about POST /analyze, under Spec                                  *)
(***************************************************************************)

\* C1: POST /analyze with a farmer_id that matches no stored profile, soil
\* test or observation (an id the store cannot parse included) and no
\* target_crop does not error in its lookups: profile and soil test are
\* absent, the observation is an empty one, and the returned result is built
\* from defaults: disease_risk {fungal_general: low}, pest_risk empty,
\* irrigation_schedule {3, 20, no notes}, the two unconditional tips,
\* yield_forecast {wheat, 3500}, rotation_plan [cereal, legume, vegetable],
\* three market_trends entries; exactly one result is persisted, under the id
\* that is returned.  The one way such a request fails is the store raising
\* in create_document.
C1_UnknownFarmerGetsDefaults ==
    /\ Cardinality({r \in 1..Len(reqs) : reqs[r].pc = "done"})
           = Len(db["analysisresult"])
    /\ \A r \in 1..Len(reqs) :
          LET req == reqs[r]
              unmatched ==
                  /\ TruthyStr(req.farmer_id)
                  /\ \A i \in 1..Len(db["farmerprofile"]) :
                        StrOfId(db["farmerprofile"][i]._id) # Val(req.farmer_id)
                  /\ \A i \in 1..Len(db["soiltest"]) :
                        db["soiltest"][i].farmer_id # req.farmer_id
                  /\ \A i \in 1..Len(db["farmobservation"]) :
                        db["farmobservation"][i].farmer_id # req.farmer_id
          IN  (unmatched /\ ~TruthySeq(req.target_crop)) =>
                /\ req.pc \in {"engine", "done", "failed"} =>
                      /\ AnalyzeProfile(req) = None
                      /\ AnalyzeSoil(req) = None
                      /\ AnalyzeObs(req) = Farmobservation
                /\ req.pc = "failed" =>
                      Val(req.response).raised = "create_document"
                /\ req.pc = "done" =>
                      LET resp == Val(req.response)
                          res  == resp.result
                          kept == {i \in 1..Len(db["analysisresult"]) :
                                      StrOfId(db["analysisresult"][i]._id)
                                          = resp.id}
                      IN  /\ resp.status = 200
                          /\ res.farmer_id = req.farmer_id
                          /\ res.target_crop = None
                          /\ res.disease_risk = [k \in {"fungal_general"} |-> "low"]
                          /\ DOMAIN res.pest_risk = {}
                          /\ res.irrigation_schedule =
                                [frequency_days |-> 3, amount_mm |-> 20,
                                 notes |-> <<>>]
                          /\ res.climate_advice = <<TipMulch, TipIPM>>
                          /\ res.yield_forecast =
                                [crop |-> S_wheat, yield_kg_per_ha |-> 3500]
                          /\ res.rotation_plan = <<"cereal", "legume", "vegetable">>
                          /\ Len(res.market_trends) = 3
                          /\ Cardinality(kept) = 1
                          /\ \A i \in kept :
                                db["analysisresult"][i]
                                    = WithId(res, db["analysisresult"][i]._id)

\* an id the store cannot parse, answered while the store holds another
\* farmer's soil test and observation
C1_Witness ==
    \E r \in 1..Len(reqs) :
        /\ reqs[r].pc = "done"
        /\ reqs[r].farmer_id = Some(RawFarmer)
        /\ reqs[r].target_crop = None
        /\ ~reqs[r].unreachable
        /\ db["soiltest"] # <<>>
        /\ db["farmobservation"] # <<>>
        /\ Len(db["analysisresult"]) = 1
        /\ Val(reqs[r].response).result.yield_forecast.yield_kg_per_ha = 3500

\* C6: a store failure on any of the three lookups of POST /analyze is
\* swallowed, and the request as a whole does not fail because the store was
\* unreachable: the engine still produces and returns a result.
C6_UnreachableStoreNeverFailsRequest ==
    \A r \in 1..Len(reqs) :
        reqs[r].unreachable => reqs[r].pc # "failed"

\* C9: a non-empty target_crop of POST /analyze overrides the stored
\* observation's target_crop for the whole analysis: whatever the stored
\* observation and the profile's crop history contain, the result's
\* target_crop is the requested value, yield_forecast.crop its lowercase form
\* and the first market_trends entry's crop the requested value; the stored
\* observation itself is as it was submitted.
C9_RequestedCropOverrides ==
    /\ \A i \in 1..Len(db["farmobservation"]) :
          \E payload \in ObservationPayloads :
              db["farmobservation"][i]
                  = WithId(payload, db["farmobservation"][i]._id)
    /\ \A r \in 1..Len(reqs) :
          (reqs[r].pc = "done" /\ reqs[r].target_crop # None
               /\ Val(reqs[r].target_crop) # <<>>) =>
              LET res == Val(reqs[r].response).result
              IN  /\ res.target_crop = reqs[r].target_crop
                  /\ res.yield_forecast.crop = Lower(Val(reqs[r].target_crop))
                  /\ res.market_trends[1].crop = Val(reqs[r].target_crop)

\* "Rice" requested for a farmer whose stored observation says cotton and
\* whose crop history ends with Maize
C9_Witness ==
    \E r \in 1..Len(reqs) :
        /\ reqs[r].pc = "done"
        /\ reqs[r].target_crop = Some(S_Rice)
        /\ reqs[r].obs_doc # None
        /\ Val(reqs[r].obs_doc).target_crop = Some(S_cotton)
        /\ reqs[r].profile_doc # None
        /\ Val(reqs[r].profile_doc).crop_history = Some(<<S_Maize>>)
        /\ Val(reqs[r].response).result.yield_forecast.crop = S_rice
        /\ db["farmobservation"][1].target_crop = Some(S_cotton)

(***************************************************************************)
(* Claims about concurrent requests, under ConcurrentSpec                  *)
(***************************************************************************)
\* what one step does to the store
C7_Step ==
    LET completed == {r \in 1..Len(reqs) :
                         reqs[r].pc # "done" /\ reqs'[r].pc = "done"}
    IN  /\ \A c \in Collections :
              /\ Len(db'[c]) >= Len(db[c])
              /\ SubSeq(db'[c], 1, Len(db[c])) = db[c]
        /\ Len(db'["analysisresult"])
               = Len(db["analysisresult"]) + Cardinality(completed)
        /\ \A r \in completed :
              LET resp == Val(reqs'[r].response)
                  doc  == db'["analysisresult"][Len(db'["analysisresult"])]
              IN  /\ \A c \in Collections \ {"analysisresult"} : db'[c] = db[c]
                  /\ StrOfId(doc._id) = resp.id
                  /\ doc = WithId(resp.result, doc._id)
                  /\ \A i \in 1..Len(db["analysisresult"]) :
                        db["analysisresult"][i]._id # doc._id

\* C7: under any interleaving of POST /profiles, /soiltests, /observations
\* and /analyze, every completed /analyze inserts exactly one new
\* analysisresult record and modifies or deletes no existing record of any
\* collection; concurrent analyses of one farmer persist as separate records,
\* and a stored result is never changed after its creation.
C7_EachAnalysisInsertsOneResult == [][C7_Step]_vars

\* two analyses of the same farmer that overlapped (the one that arrived
\* first finished last, and had read a profile the other had not), both
\* stored
C7_Witness ==
    /\ Len(reqs) >= 2
    /\ reqs[1].pc = "done"
    /\ reqs[2].pc = "done"
    /\ reqs[1].farmer_id = reqs[2].farmer_id
    /\ Val(reqs[2].response).id = StrOfId([c |-> "analysisresult", n |-> 1])
    /\ Val(reqs[1].response).id = StrOfId([c |-> "analysisresult", n |-> 2])
    /\ Val(reqs[1].response).result # Val(reqs[2].response).result
    /\ Len(db["analysisresult"]) = 2

====
